---- MODULE Spec2Model ----
(***************************************************************************)
(* callApi (src/src/callAPI.ts): one asynchronous HTTP helper.  An         *)
(* invocation optionally runs a license-validation request, then the main  *)
(* request; each request is guarded by a setTimeout/AbortController pair,   *)
(* its response goes through processResponse, and optional callbacks are    *)
(* notified.  The model follows one invocation from suspension point to     *)
(* suspension point: every action is one resumption of the async function   *)
(* (or one timer callback) together with all the synchronous code that      *)
(* runs until the next await or until the promise settles.                  *)
(*                                                                          *)
(* The platform pieces the code consumes are modelled by what the Fetch     *)
(* standard makes them do: Response.ok is 200..299 inclusive, a body can be *)
(* consumed once (json()/text() on a disturbed body reject with TypeError,  *)
(* a null body is never disturbed), fetch rejects with a DOMException named *)
(* AbortError when its signal is aborted and with a TypeError on a network  *)
(* failure.                                                                 *)
(***************************************************************************)
EXTENDS Integers, Sequences, FiniteSets, TLC

VARIABLES
    pc,        \* per invocation: "idle", "fetch", "json", "text", "done"
    phase,     \* per invocation: "none", "license", "main"
    params,    \* per invocation: the ApiCallOptions it was called with
    response,  \* per invocation: the Response of the current phase
    stream,    \* per invocation: state of that Response's body stream
    decodes,   \* per invocation: json()/text() calls made, in order
    timers,    \* per invocation: the setTimeout timer of each phase
    aborted,   \* per invocation: controller.signal.aborted of each phase
    fetches,   \* per invocation: fetch() calls issued, in order
    calls,     \* per invocation: callback invocations, in order
    caught,    \* per invocation: errors bound by the catch clauses
    outcome,   \* per invocation: the state of the returned promise
    requests,  \* per invocation: URL and body option of each fetch() call
    console    \* per invocation: the console.debug calls it made, in order

vars == <<pc, phase, params, response, stream, decodes, timers, aborted,
          fetches, calls, caught, outcome, requests, console>>

Invocations == {1}

(***************************************************************************)
(* Values                                                                   *)
(***************************************************************************)
Undefined == [type |-> "undefined", value |-> ""]

\* What response.text() yields: the body as a string.
Text(raw) == [type |-> "string", value |-> raw]

\* The body texts that JSON.parse accepts, and what it yields for them
\* (value is the canonical rendering of the parsed value).
JsonTexts == {"[1]", "[ 1 ]", "{\"error\":\"not found\"}"}

JsonParse(raw) ==
    CASE raw = "[1]" -> [type |-> "array", value |-> "[1]"]
      [] raw = "[ 1 ]" -> [type |-> "array", value |-> "[1]"]
      [] raw = "{\"error\":\"not found\"}" ->
             [type |-> "object", value |-> "{\"error\":\"not found\"}"]

\* Request bodies (body?: unknown): a type and the JSON text of the value.
BodyValues ==
    { Undefined,
      [type |-> "null", value |-> "null"],
      [type |-> "number", value |-> "0"],
      [type |-> "boolean", value |-> "false"],
      [type |-> "string", value |-> ""],
      [type |-> "string", value |-> "a"],
      [type |-> "object", value |-> "{\"licenseKey\":\"K\"}"] }

\* The truthiness test of "body ? ... : undefined".
Truthy(v) ==
    ~ \/ v.type \in {"undefined", "null"}
      \/ v.type = "number" /\ v.value \in {"0", "NaN"}
      \/ v.type = "boolean" /\ v.value = "false"
      \/ v.type = "string" /\ v.value = ""

\* JSON.stringify(v): a string is quoted, anything else is its JSON text.
JsonStringify(v) ==
    IF v.type = "string" THEN "\"" \o v.value \o "\"" ELSE v.value

\* body: body ? JSON.stringify(body) : undefined
RequestBody(body) ==
    IF Truthy(body) THEN [type |-> "string", value |-> JsonStringify(body)]
    ELSE Undefined

\* Errors.  class is what instanceof sees, name is the name property.
TimeoutError ==
    [class |-> "TimeoutError", name |-> "TimeoutError",
     message |-> "Request timed out"]

ApiResponseError(statusCode, errorData) ==
    [class |-> "ApiResponseError", name |-> "ApiResponseError",
     message |-> "API request failed with status",
     statusCode |-> statusCode, response |-> errorData]

\* fetch() rejecting because its signal was aborted.
AbortError ==
    [class |-> "DOMException", name |-> "AbortError",
     message |-> "The operation was aborted"]

\* fetch() rejecting because no response could be obtained.
FetchFailed ==
    [class |-> "TypeError", name |-> "TypeError", message |-> "Failed to fetch"]

\* json()/text() rejecting because the body stream failed while being read.
BodyStreamFailed ==
    [class |-> "TypeError", name |-> "TypeError", message |-> "terminated"]

\* json()/text() called on a body that has already been read.
BodyUnusable ==
    [class |-> "TypeError", name |-> "TypeError", message |-> "Body is unusable"]

\* response.json() on a body that is not JSON.
JsonSyntaxError ==
    [class |-> "SyntaxError", name |-> "SyntaxError",
     message |-> "Unexpected token"]

\* new URL(path, baseUrl) on an unresolvable pair.
InvalidUrl ==
    [class |-> "TypeError", name |-> "TypeError", message |-> "Invalid URL"]

\* Whatever a throwing callback throws.
CallbackError(cb) ==
    [class |-> "Error", name |-> "Error", message |-> cb]

(***************************************************************************)
(* buildUrl.  Strings are sequences of characters.                          *)
(***************************************************************************)
\* encodeURIComponent, character by character (letters, digits and
\* - _ . ! ~ * ' ( ) are kept).
EncodeURIComponentChar(c) ==
    CASE c = " " -> <<"%", "2", "0">>
      [] c = "%" -> <<"%", "2", "5">>
      [] c = "&" -> <<"%", "2", "6">>
      [] c = "+" -> <<"%", "2", "B">>
      [] c = "=" -> <<"%", "3", "D">>
      [] OTHER -> <<c>>

RECURSIVE EncodeURIComponent(_)
EncodeURIComponent(str) ==
    IF str = <<>> THEN <<>>
    ELSE EncodeURIComponentChar(Head(str)) \o EncodeURIComponent(Tail(str))

\* What URLSearchParams writes into the URL for one name or value: the
\* application/x-www-form-urlencoded serialisation (letters, digits and
\* * - . _ are kept, a space becomes +).
FormEncodeChar(c) ==
    CASE c = " " -> <<"+">>
      [] c = "%" -> <<"%", "2", "5">>
      [] c = "&" -> <<"%", "2", "6">>
      [] c = "+" -> <<"%", "2", "B">>
      [] c = "=" -> <<"%", "3", "D">>
      [] OTHER -> <<c>>

RECURSIVE FormEncode(_)
FormEncode(str) ==
    IF str = <<>> THEN <<>>
    ELSE FormEncodeChar(Head(str)) \o FormEncode(Tail(str))

\* Object.entries(queryParams) with the undefined and null values dropped,
\* each remaining entry as url.searchParams.append receives it.
RECURSIVE Appended(_, _)
Appended(queryParams, skipURIEncoding) ==
    IF queryParams = <<>> THEN <<>>
    ELSE LET entry == Head(queryParams)
             rest == Appended(Tail(queryParams), skipURIEncoding)
         IN  IF entry.value.type \in {"undefined", "null"} THEN rest
             ELSE << [key |-> IF skipURIEncoding THEN entry.key
                              ELSE EncodeURIComponent(entry.key),
                      value |-> IF skipURIEncoding THEN entry.value.text
                                ELSE EncodeURIComponent(entry.value.text)] >>
                  \o rest

\* The query string of a URL whose searchParams hold the list pairs.
RECURSIVE Serialize(_)
Serialize(pairs) ==
    IF pairs = <<>> THEN <<>>
    ELSE FormEncode(Head(pairs).key) \o <<"=">> \o FormEncode(Head(pairs).value)
         \o (IF Tail(pairs) = <<>> THEN <<>> ELSE <<"&">> \o Serialize(Tail(pairs)))

\* buildUrl(baseUrl, path, queryParams, skipURIEncoding), for a path that
\* resolves against baseUrl: url.toString() as the resolved address and the
\* query string.
BuildUrl(baseUrl, path, queryParams, skipURIEncoding) ==
    [href |-> baseUrl \o path,
     search |-> Serialize(Appended(queryParams, skipURIEncoding))]

(***************************************************************************)
(* Inputs                                                                   *)
(***************************************************************************)
Handlers == {"onSuccess", "onError", "license.onSuccess", "license.onError"}

\* ApiCallOptions, as far as control flow reads it: whether validateLicense
\* is given, whether each URL resolves, and which callbacks are supplied.
ParamSet ==
    {[validateLicense |-> FALSE, licenseUrlOk |-> TRUE, urlOk |-> u,
      handlers |-> h] : u \in BOOLEAN, h \in SUBSET {"onSuccess", "onError"}}
    \cup
    {[validateLicense |-> TRUE, licenseUrlOk |-> l, urlOk |-> u,
      handlers |-> h] : l \in BOOLEAN, u \in BOOLEAN, h \in SUBSET Handlers}

DebugFlags == {"logUrl", "logRequest", "logResponse", "logData"}

\* The characters query keys and values are made of, and their lengths.
Alphabet == {"a", " ", "%", "&"}

MaxLen == 1

MaxParams == 2

Strings == UNION {[1..n -> Alphabet] : n \in 0..MaxLen}

\* Query values (string | number | boolean | null | undefined) with the
\* text String(value) gives.
QueryValues ==
    {[type |-> "undefined", text |-> <<>>], [type |-> "null", text |-> <<>>],
     [type |-> "number", text |-> <<"1">>],
     [type |-> "boolean", text |-> <<"t", "r", "u", "e">>]}
    \cup {[type |-> "string", text |-> str] : str \in Strings}

\* Query-parameter maps in Object.entries order: distinct non-empty keys.
QueryParamSet ==
    LET entries == {[key |-> k, value |-> v] : k \in Strings \ {<<>>}, v \in QueryValues}
    IN  {q \in UNION {[1..n -> entries] : n \in 0..MaxParams} :
            \A k \in 1..Len(q), l \in 1..Len(q) : k # l => q[k].key # q[l].key}

\* The whole of ApiCallOptions: control of ParamSet, debug flags, the bodies
\* of both requests, the query parameters and skipURIEncoding of both.
Options(control, debugs, bodies, queries, skips) ==
    {[validateLicense |-> c.validateLicense, licenseUrlOk |-> c.licenseUrlOk,
      urlOk |-> c.urlOk, handlers |-> c.handlers, debug |-> d,
      body |-> b, licenseBody |-> IF c.validateLicense THEN lb ELSE Undefined,
      queryParams |-> q, skipURIEncoding |-> k,
      licenseQueryParams |-> <<>>, licenseSkipURIEncoding |-> FALSE] :
        c \in control, d \in debugs, b \in bodies, lb \in bodies,
        q \in queries, k \in skips}

Statuses == {200, 298, 299, 300, 404}

\* Header lists: none, or a content-type whose value is a sequence of pieces.
HeaderSet ==
    { <<>>,
      "content-type" :> <<"application/json">>,
      "content-type" :> <<"application/json", "; charset=utf-8">>,
      "content-type" :> <<"text/html", "; charset=utf-8">> }

\* Bodies: a null body (HEAD, 204, 304), or a stream carrying a text.
BodySet ==
    {[null |-> TRUE, raw |-> ""]}
    \cup {[null |-> FALSE, raw |-> r] : r \in JsonTexts \cup {"Not Found", ""}}

Responses ==
    {[status |-> st, headers |-> h, body |-> b] :
        st \in Statuses, h \in HeaderSet, b \in BodySet}

NoResponse == [status |-> 0, headers |-> <<>>, body |-> [null |-> TRUE, raw |-> ""]]

(***************************************************************************)
(* State of one invocation, read and written as a record                    *)
(***************************************************************************)
St(i) ==
    [pc |-> pc[i], phase |-> phase[i], params |-> params[i],
     response |-> response[i], stream |-> stream[i], decodes |-> decodes[i],
     timers |-> timers[i], aborted |-> aborted[i], fetches |-> fetches[i],
     calls |-> calls[i], caught |-> caught[i], outcome |-> outcome[i],
     requests |-> requests[i], console |-> console[i]]

\* Set with timeoutId kept in one place for all invocations.
SetSharingTimers(i, s) ==
    /\ pc' = [pc EXCEPT ![i] = s.pc]
    /\ phase' = [phase EXCEPT ![i] = s.phase]
    /\ params' = [params EXCEPT ![i] = s.params]
    /\ response' = [response EXCEPT ![i] = s.response]
    /\ stream' = [stream EXCEPT ![i] = s.stream]
    /\ decodes' = [decodes EXCEPT ![i] = s.decodes]
    /\ timers' = [j \in DOMAIN timers |-> s.timers]
    /\ aborted' = [aborted EXCEPT ![i] = s.aborted]
    /\ fetches' = [fetches EXCEPT ![i] = s.fetches]
    /\ calls' = [calls EXCEPT ![i] = s.calls]
    /\ caught' = [caught EXCEPT ![i] = s.caught]
    /\ outcome' = [outcome EXCEPT ![i] = s.outcome]
    /\ requests' = [requests EXCEPT ![i] = s.requests]
    /\ console' = [console EXCEPT ![i] = s.console]

\* callApi keeps all of its state in locals (controller, timeoutId, response,
\* data): a step of invocation i writes the variables of i only.
Set(i, s) ==
    /\ pc' = [pc EXCEPT ![i] = s.pc]
    /\ phase' = [phase EXCEPT ![i] = s.phase]
    /\ params' = [params EXCEPT ![i] = s.params]
    /\ response' = [response EXCEPT ![i] = s.response]
    /\ stream' = [stream EXCEPT ![i] = s.stream]
    /\ decodes' = [decodes EXCEPT ![i] = s.decodes]
    /\ timers' = [timers EXCEPT ![i] = s.timers]
    /\ aborted' = [aborted EXCEPT ![i] = s.aborted]
    /\ fetches' = [fetches EXCEPT ![i] = s.fetches]
    /\ calls' = [calls EXCEPT ![i] = s.calls]
    /\ caught' = [caught EXCEPT ![i] = s.caught]
    /\ outcome' = [outcome EXCEPT ![i] = s.outcome]
    /\ requests' = [requests EXCEPT ![i] = s.requests]
    /\ console' = [console EXCEPT ![i] = s.console]

\* Every invocation moves to the state next gives it.
SetAll(next) ==
    /\ pc' = [i \in DOMAIN pc |-> next[i].pc]
    /\ phase' = [i \in DOMAIN pc |-> next[i].phase]
    /\ params' = [i \in DOMAIN pc |-> next[i].params]
    /\ response' = [i \in DOMAIN pc |-> next[i].response]
    /\ stream' = [i \in DOMAIN pc |-> next[i].stream]
    /\ decodes' = [i \in DOMAIN pc |-> next[i].decodes]
    /\ timers' = [i \in DOMAIN pc |-> next[i].timers]
    /\ aborted' = [i \in DOMAIN pc |-> next[i].aborted]
    /\ fetches' = [i \in DOMAIN pc |-> next[i].fetches]
    /\ calls' = [i \in DOMAIN pc |-> next[i].calls]
    /\ caught' = [i \in DOMAIN pc |-> next[i].caught]
    /\ outcome' = [i \in DOMAIN pc |-> next[i].outcome]
    /\ requests' = [i \in DOMAIN pc |-> next[i].requests]
    /\ console' = [i \in DOMAIN pc |-> next[i].console]

(***************************************************************************)
(* Platform behaviour the code relies on                                    *)
(***************************************************************************)
\* ResponseOk with the upper end of the success range left out.
ResponseOkHalfOpen(resp) == resp.status >= 200 /\ resp.status < 299

\* response.ok
ResponseOk(resp) == resp.status >= 200 /\ resp.status <= 299

\* String.prototype.includes on a header value.
Includes(value, piece) == \E k \in 1..Len(value) : value[k] = piece

\* ContentTypeIsJson comparing the whole header value instead of searching it.
ContentTypeEqualsJson(resp) ==
    /\ "content-type" \in DOMAIN resp.headers
    /\ resp.headers["content-type"] = <<"application/json">>

\* contentType?.includes("application/json"), contentType being
\* response.headers.get("content-type") (null when the header is absent).
ContentTypeIsJson(resp) ==
    /\ "content-type" \in DOMAIN resp.headers
    /\ Includes(resp.headers["content-type"], "application/json")

\* Response.bodyUsed: a non-null body whose stream has been touched.
BodyUsed(s) == ~s.response.body.null /\ s.stream # "unread"

(***************************************************************************)
(* Settling, callbacks                                                      *)
(***************************************************************************)
Reject(s, error) ==
    [s EXCEPT !.pc = "done", !.outcome = [state |-> "rejected", value |-> error]]

Resolve(s, data) ==
    [s EXCEPT !.pc = "done", !.outcome = [state |-> "fulfilled", value |-> data]]

\* handlers.cb?.(arg): nothing happens when the callback is not supplied.
\* throws says whether the supplied callback throws.
Invoke(s, cb, arg, throws) ==
    IF cb \in s.params.handlers
    THEN [s EXCEPT !.calls = Append(@, [cb |-> cb, arg |-> arg, threw |-> throws])]
    ELSE s

Threw(s, cb, throws) == cb \in s.params.handlers /\ throws

\* debug.flag && console.debug(label, value)
Log(s, flag, label, value) ==
    IF flag \in s.params.debug
    THEN [s EXCEPT !.console = Append(@, [label |-> label, value |-> value])]
    ELSE s

\* error instanceof DOMException && error.name === "AbortError"
IsAbortError(error) == error.class = "DOMException" /\ error.name = "AbortError"

\* MainCatchReports without the "throw timeoutError" of the abort branch:
\* control falls through to the second onError.
MainCatchReportsTwice(error) ==
    IF IsAbortError(error) THEN <<TimeoutError, error>> ELSE <<error>>

\* The onError notifications the main catch clause makes for a caught error.
MainCatchReports(error) ==
    IF IsAbortError(error) THEN <<TimeoutError>> ELSE <<error>>

\* catch (error) { if (abort) { onError?.(timeoutError); throw timeoutError }
\*                 onError?.(error); throw error; }
\* The first notification that throws ends the clause with what it threw;
\* otherwise the clause throws what it last reported.
RECURSIVE Report(_, _, _)
Report(s, reports, throws) ==
    IF Threw(s, "onError", throws)
    THEN Reject(Invoke(s, "onError", Head(reports), throws), CallbackError("onError"))
    ELSE IF Len(reports) = 1
         THEN Reject(Invoke(s, "onError", Head(reports), throws), Head(reports))
         ELSE Report(Invoke(s, "onError", Head(reports), throws), Tail(reports), throws)

\* MainCatch that answers a failed fetch by issuing the request once more.
MainCatchRetriesOnce(s, error, throws) ==
    LET s1 == [s EXCEPT !.caught = Append(@, [phase |-> "main", error |-> error])]
    IN  IF error = FetchFailed /\ Len(SelectSeq(s.fetches, LAMBDA f : f = "main")) = 1
        THEN [s1 EXCEPT !.timers.main = "pending",
                        !.fetches = Append(@, "main"),
                        !.pc = "fetch"]
        ELSE Report(s1, MainCatchReports(error), throws)

MainCatch(s, error, throws) ==
    LET s1 == [s EXCEPT !.caught = Append(@, [phase |-> "main", error |-> error])]
    IN  Report(s1, MainCatchReports(error), throws)

(***************************************************************************)
(* callApi, from one suspension point to the next                           *)
(***************************************************************************)
\* Main phase up to "await fetch(url, ...)": buildUrl, new AbortController,
\* setTimeout, fetch.  A throwing buildUrl lands in the main catch clause.
BeginMain(s, throws) ==
    LET s1 == [s EXCEPT !.phase = "main", !.response = NoResponse,
                        !.stream = "unread"]
    IN  IF ~s.params.urlOk
        THEN MainCatch(s1, InvalidUrl, throws)
        ELSE LET url == BuildUrl("https://api.x.com", "/users",
                                 s.params.queryParams, s.params.skipURIEncoding)
                 s2 == Log(s1, "logUrl", "API URL:", url)
                 s3 == Log(s2, "logRequest", "API Request Body:", s.params.body)
             IN  [s3 EXCEPT !.timers.main = "pending",
                            !.fetches = Append(@, "main"),
                            !.requests = Append(@, [phase |-> "main", url |-> url,
                                                    body |-> RequestBody(s.params.body)]),
                            !.pc = "fetch"]

\* LicenseCatch without its "throw error": the failure is reported and the
\* function carries on into the main call.
LicenseCatchFallsThrough(s, error, throws) ==
    LET s1 == [s EXCEPT !.caught = Append(@, [phase |-> "license", error |-> error])]
        s2 == Invoke(s1, "license.onError", error, throws)
    IN  IF Threw(s1, "license.onError", throws)
        THEN Reject(s2, CallbackError("license.onError"))
        ELSE BeginMain(s2, FALSE)

\* catch (error) { validateLicense.onError?.(error); throw error; }
LicenseCatch(s, error, throws) ==
    LET s1 == [s EXCEPT !.caught = Append(@, [phase |-> "license", error |-> error])]
        s2 == Invoke(s1, "license.onError", error, throws)
    IN  IF Threw(s1, "license.onError", throws)
        THEN Reject(s2, CallbackError("license.onError"))
        ELSE Reject(s2, error)

Catch(s, error, throws) ==
    IF s.phase = "license" THEN LicenseCatch(s, error, throws)
    ELSE MainCatch(s, error, throws)

\* License phase up to "await fetch(licenseUrl, ...)".
BeginLicense(s, throws) ==
    LET s1 == [s EXCEPT !.phase = "license"]
    IN  IF ~s.params.licenseUrlOk
        THEN LicenseCatch(s1, InvalidUrl, throws)
        ELSE LET url == BuildUrl("https://api.x.com", "/validate-license",
                                 s.params.licenseQueryParams,
                                 s.params.licenseSkipURIEncoding)
                 s2 == Log(s1, "logUrl", "License validation URL:", url)
                 s3 == Log(s2, "logRequest", "License validation request:",
                           s.params.licenseBody)
             IN  [s3 EXCEPT !.timers.license = "pending",
                            !.fetches = Append(@, "license"),
                            !.requests = Append(@, [phase |-> "license", url |-> url,
                                                    body |-> RequestBody(s.params.licenseBody)]),
                            !.pc = "fetch"]

\* if (validateLicense) { ... }  followed by the main call.
Begin(s, throws) ==
    IF s.params.validateLicense THEN BeginLicense(s, throws)
    ELSE BeginMain(s, throws)

\* response.json() / response.text() being called: the read of the body
\* starts and the caller suspends until it ends.
CallDecode(s, op) ==
    [s EXCEPT !.pc = op,
              !.decodes = Append(@, [phase |-> s.phase, op |-> op]),
              !.stream = IF s.response.body.null THEN @ ELSE "reading"]

\* AfterProcess with the main onSuccess inside the logData branch.
AfterProcessSuccessUnderLogData(s, data, throws1, throws2) ==
    IF s.phase = "license"
    THEN LET s1 == Invoke(s, "license.onSuccess", data, throws1)
         IN  IF Threw(s, "license.onSuccess", throws1)
             THEN LicenseCatch(s1, CallbackError("license.onSuccess"), throws2)
             ELSE BeginMain(s1, throws2)
    ELSE LET l1 == Log(s, "logResponse", "API Response:", s.response)
             l2 == Log(l1, "logData", "API Response Data:", data)
             on == "logData" \in s.params.debug
             s1 == IF on THEN Invoke(l2, "onSuccess", data, throws1) ELSE l2
         IN  IF on /\ Threw(s, "onSuccess", throws1)
             THEN MainCatch(s1, CallbackError("onSuccess"), throws2)
             ELSE Resolve(s1, data)

\* After "await processResponse(...)" has produced data: the phase's
\* onSuccess, then the main phase (license) or the return (main).  An
\* onSuccess that throws is caught by the phase's own catch clause.  In the
\* main phase the response and the data are logged first.
AfterProcess(s, data, throws1, throws2) ==
    IF s.phase = "license"
    THEN LET s1 == Invoke(s, "license.onSuccess", data, throws1)
         IN  IF Threw(s, "license.onSuccess", throws1)
             THEN LicenseCatch(s1, CallbackError("license.onSuccess"), throws2)
             ELSE BeginMain(s1, throws2)
    ELSE LET l1 == Log(s, "logResponse", "API Response:", s.response)
             l2 == Log(l1, "logData", "API Response Data:", data)
             s1 == Invoke(l2, "onSuccess", data, throws1)
         IN  IF Threw(s, "onSuccess", throws1)
             THEN MainCatch(s1, CallbackError("onSuccess"), throws2)
             ELSE Resolve(s1, data)

\* The catch branch of processResponse's failure path:
\* errorData = await response.text(), on the response json() was called on.
\* text() rejects at once on a used body and yields "" on a null body.
TextFallback(s, throws) ==
    LET s1 == [s EXCEPT !.decodes = Append(@, [phase |-> s.phase, op |-> "text"])]
    IN  IF BodyUsed(s1)
        THEN Catch(s1, BodyUnusable, throws)
        ELSE Catch(s1, ApiResponseError(s1.response.status, Text("")), throws)

\* The pending json() settles with the body fully read.
JsonSettles(s, throws1, throws2) ==
    LET s1 == [s EXCEPT !.stream = IF s.response.body.null THEN @ ELSE "closed"]
        parses == ~s.response.body.null /\ s.response.body.raw \in JsonTexts
    IN  IF ~ResponseOk(s.response)
        THEN IF parses
             THEN Catch(s1, ApiResponseError(s.response.status,
                                             JsonParse(s.response.body.raw)), throws1)
             ELSE TextFallback(s1, throws1)
        ELSE IF parses
             THEN AfterProcess(s1, JsonParse(s.response.body.raw), throws1, throws2)
             ELSE Catch(s1, JsonSyntaxError, throws1)

\* The pending text() settles with the body fully read.
TextSettles(s, throws1, throws2) ==
    LET s1 == [s EXCEPT !.stream = IF s.response.body.null THEN @ ELSE "closed"]
    IN  AfterProcess(s1, Text(s.response.body.raw), throws1, throws2)

\* processResponse from its start to its first suspension on the
\* transport: json() for a failure status and for a JSON content type,
\* text() otherwise.  On a null body there is nothing to wait for and the
\* read settles at once.
ProcessResponse(s, throws1, throws2) ==
    LET op == IF ~ResponseOk(s.response) THEN "json"
              ELSE IF ContentTypeIsJson(s.response) THEN "json"
              ELSE "text"
        s1 == CallDecode(s, op)
    IN  IF ~s.response.body.null THEN s1
        ELSE IF op = "json" THEN JsonSettles(s1, throws1, throws2)
        ELSE TextSettles(s1, throws1, throws2)

\* The pending json()/text() rejects with error (the stream failed or was
\* aborted).  On the failure path the rejection of json() is swallowed and
\* text() is tried on the same response.
DecodeRejects(s, error, throws) ==
    LET s1 == [s EXCEPT !.stream = "errored"]
    IN  IF s.pc = "json" /\ ~ResponseOk(s.response)
        THEN TextFallback(s1, throws)
        ELSE Catch(s1, error, throws)

(***************************************************************************)
(* The resumptions of one invocation, as functions of its state             *)
(***************************************************************************)
\* clearTimeout(timeoutId) of the current phase without effect.
ClearTimeoutMissing(s) == s

\* clearTimeout(timeoutId) of the current phase.
ClearTimeout(s) == [s EXCEPT !.timers[s.phase] = "cleared"]

\* callApi(params) is called and runs up to its first await.
DoCallApi(s, throws) == Begin(s, throws)

\* The awaited fetch() resolves with resp: clearTimeout, then processResponse.
DoFetchResolves(s, resp, throws1, throws2) ==
    ProcessResponse([ClearTimeout(s) EXCEPT !.response = resp], throws1, throws2)

\* The awaited fetch() rejects because no response could be obtained.
DoFetchRejects(s, throws) == Catch(s, FetchFailed, throws)

\* The setTimeout callback of phase ph runs: controller.abort().  A fetch
\* or body read still pending on that signal rejects with an AbortError.
DoTimerFires(s, ph, throws) ==
    LET s1 == [s EXCEPT !.timers[ph] = "fired", !.aborted[ph] = TRUE]
    IN  IF s.phase = ph /\ s.pc = "fetch"
        THEN Catch(s1, AbortError, throws)
        ELSE IF s.phase = ph /\ s.pc \in {"json", "text"}
             THEN DecodeRejects(s1, AbortError, throws)
             ELSE s1

\* The body has been read to its end: the pending json()/text() settles.
DoBodyCompletes(s, throws1, throws2) ==
    IF s.pc = "json" THEN JsonSettles(s, throws1, throws2)
    ELSE TextSettles(s, throws1, throws2)

\* The body stream fails while being read.
DoBodyFails(s, throws) == DecodeRejects(s, BodyStreamFailed, throws)

(***************************************************************************)
(* Actions                                                                  *)
(***************************************************************************)
CallApi(i) ==
    /\ pc[i] = "idle"
    /\ \E throws \in BOOLEAN : Set(i, DoCallApi(St(i), throws))

\* Status and headers are in; a non-null body is still to be read.
FetchResolves(i) ==
    /\ pc[i] = "fetch"
    /\ \E resp \in Responses, throws1 \in BOOLEAN, throws2 \in BOOLEAN :
          Set(i, DoFetchResolves(St(i), resp, throws1, throws2))

FetchRejects(i) ==
    /\ pc[i] = "fetch"
    /\ \E throws \in BOOLEAN : Set(i, DoFetchRejects(St(i), throws))

TimerFires(i) ==
    \E ph \in {"license", "main"}, throws \in BOOLEAN :
       /\ timers[i][ph] = "pending"
       /\ Set(i, DoTimerFires(St(i), ph, throws))

BodyCompletes(i) ==
    /\ pc[i] \in {"json", "text"}
    /\ ~response[i].body.null
    /\ \E throws1 \in BOOLEAN, throws2 \in BOOLEAN :
          Set(i, DoBodyCompletes(St(i), throws1, throws2))

BodyFails(i) ==
    /\ pc[i] \in {"json", "text"}
    /\ ~response[i].body.null
    /\ \E throws \in BOOLEAN : Set(i, DoBodyFails(St(i), throws))

(***************************************************************************)
(* The same steps with one environment for all invocations: the event and   *)
(* its inputs (response, failure, timer, what the callbacks do) reach every *)
(* invocation that is waiting for it.                                       *)
(***************************************************************************)
SameCallApi ==
    /\ \E i \in DOMAIN pc : pc[i] = "idle"
    /\ \E throws \in BOOLEAN :
          SetAll([i \in DOMAIN pc |->
                    IF pc[i] = "idle" THEN DoCallApi(St(i), throws) ELSE St(i)])

SameFetchResolves ==
    /\ \E i \in DOMAIN pc : pc[i] = "fetch"
    /\ \E resp \in Responses, throws1 \in BOOLEAN, throws2 \in BOOLEAN :
          SetAll([i \in DOMAIN pc |->
                    IF pc[i] = "fetch"
                    THEN DoFetchResolves(St(i), resp, throws1, throws2) ELSE St(i)])

SameFetchRejects ==
    /\ \E i \in DOMAIN pc : pc[i] = "fetch"
    /\ \E throws \in BOOLEAN :
          SetAll([i \in DOMAIN pc |->
                    IF pc[i] = "fetch" THEN DoFetchRejects(St(i), throws) ELSE St(i)])

SameTimerFires ==
    \E ph \in {"license", "main"}, throws \in BOOLEAN :
       /\ \E i \in DOMAIN pc : timers[i][ph] = "pending"
       /\ SetAll([i \in DOMAIN pc |->
                    IF timers[i][ph] = "pending"
                    THEN DoTimerFires(St(i), ph, throws) ELSE St(i)])

SameBodyCompletes ==
    /\ \E i \in DOMAIN pc : pc[i] \in {"json", "text"} /\ ~response[i].body.null
    /\ \E throws1 \in BOOLEAN, throws2 \in BOOLEAN :
          SetAll([i \in DOMAIN pc |->
                    IF pc[i] \in {"json", "text"} /\ ~response[i].body.null
                    THEN DoBodyCompletes(St(i), throws1, throws2) ELSE St(i)])

SameBodyFails ==
    /\ \E i \in DOMAIN pc : pc[i] \in {"json", "text"} /\ ~response[i].body.null
    /\ \E throws \in BOOLEAN :
          SetAll([i \in DOMAIN pc |->
                    IF pc[i] \in {"json", "text"} /\ ~response[i].body.null
                    THEN DoBodyFails(St(i), throws) ELSE St(i)])

\* The state before callApi is called, for the invocations ids and the
\* options each of them may be called with.
InitWith(ids, options) ==
    /\ pc = [i \in ids |-> "idle"]
    /\ phase = [i \in ids |-> "none"]
    /\ params \in [ids -> options]
    /\ response = [i \in ids |-> NoResponse]
    /\ stream = [i \in ids |-> "unread"]
    /\ decodes = [i \in ids |-> <<>>]
    /\ timers = [i \in ids |-> [license |-> "none", main |-> "none"]]
    /\ aborted = [i \in ids |-> [license |-> FALSE, main |-> FALSE]]
    /\ fetches = [i \in ids |-> <<>>]
    /\ calls = [i \in ids |-> <<>>]
    /\ caught = [i \in ids |-> <<>>]
    /\ outcome = [i \in ids |-> [state |-> "pending", value |-> Undefined]]
    /\ requests = [i \in ids |-> <<>>]
    /\ console = [i \in ids |-> <<>>]

\* One invocation, every control path; no debug flag, no body, no query.
Init ==
    InitWith(Invocations, Options(ParamSet, {{}}, {Undefined}, {<<>>}, {FALSE}))

Next ==
    \/ \E i \in DOMAIN pc : CallApi(i)
    \/ \E i \in DOMAIN pc : FetchResolves(i)
    \/ \E i \in DOMAIN pc : FetchRejects(i)
    \/ \E i \in DOMAIN pc : TimerFires(i)
    \/ \E i \in DOMAIN pc : BodyCompletes(i)
    \/ \E i \in DOMAIN pc : BodyFails(i)

\* One invocation without callbacks, the body of each request drawn from
\* BodyValues.
InitBody ==
    InitWith(Invocations,
             Options({c \in ParamSet : c.handlers = {}}, {{}}, BodyValues, {<<>>}, {FALSE}))

SpecBody == InitBody /\ [][Next]_vars

\* buildUrl applied to every query-parameter map, with and without
\* skipURIEncoding, in an invocation without license phase and callbacks.
InitUrl ==
    InitWith(Invocations,
             Options({c \in ParamSet : c.handlers = {} /\ ~c.validateLicense /\ c.urlOk},
                     {{}}, {Undefined}, QueryParamSet, BOOLEAN))

SpecUrl == InitUrl /\ [][Next]_vars

\* Two invocations with the same options apart from debug: invocation 1 with
\* any combination of the four flags, invocation 2 with none.
Pair == {1, 2}

\* The callbacks of a phase are all supplied or all left out.
AllOrNone ==
    {c \in ParamSet :
        c.handlers \in {{}, IF c.validateLicense THEN Handlers
                            ELSE {"onSuccess", "onError"}}}

InitDebug ==
    /\ InitWith(Pair, Options(AllOrNone, SUBSET DebugFlags, {Undefined}, {<<>>}, {FALSE}))
    /\ params[2] = [params[1] EXCEPT !.debug = {}]

NextDebug ==
    \/ SameCallApi
    \/ SameFetchResolves
    \/ SameFetchRejects
    \/ SameTimerFires
    \/ SameBodyCompletes
    \/ SameBodyFails

SpecDebug == InitDebug /\ [][NextDebug]_vars

\* Two concurrent invocations with unrelated options: invocation 1 without
\* license phase, invocation 2 with one; their suspension points interleave
\* in any order.
InitTwo ==
    /\ InitWith(Pair, Options({c \in AllOrNone : c.urlOk /\ c.licenseUrlOk},
                              {{}}, {Undefined}, {<<>>}, {FALSE}))
    /\ ~params[1].validateLicense
    /\ params[2].validateLicense

\* The responses the concurrent invocations receive: a success and a failure
\* status, a JSON body declared as JSON or as HTML.
TwoResponses ==
    {resp \in Responses :
        /\ resp.status \in {200, 404}
        /\ resp.headers # <<>>
        /\ Len(resp.headers["content-type"]) = 2
        /\ resp.body = [null |-> FALSE, raw |-> "[1]"]}

NextTwo ==
    \/ \E i \in DOMAIN pc : CallApi(i)
    \/ \E i \in DOMAIN pc : FetchResolves(i) /\ response'[i] \in TwoResponses
    \/ \E i \in DOMAIN pc : FetchRejects(i)
    \/ \E i \in DOMAIN pc : TimerFires(i)
    \/ \E i \in DOMAIN pc : BodyCompletes(i)
    \/ \E i \in DOMAIN pc : BodyFails(i)

SpecTwo == InitTwo /\ [][NextTwo]_vars

Spec == Init /\ [][Next]_vars

\* Timers that are pending eventually fire, and a called function starts
\* running; the transport is under no obligation to deliver anything.
FairSpec ==
    /\ Spec
    /\ \A i \in Invocations : WF_vars(TimerFires(i)) /\ WF_vars(CallApi(i))

(***************************************************************************)
(* Properties                                                               *)
(***************************************************************************)
Range(seq) == {seq[k] : k \in 1..Len(seq)}

Settled(i) == pc[i] = "done"

\* The class of a settled value: that of an error, "none" for data.
ClassOf(v) == IF "class" \in DOMAIN v THEN v.class ELSE "none"

\* The errors the catch clause of phase ph has bound in invocation i.
CaughtIn(i, ph) == {c.error : c \in {d \in Range(caught[i]) : d.phase = ph}}

\* The arguments callback cb has been invoked with in invocation i.
ArgsOf(i, cb) == {c.arg : c \in {d \in Range(calls[i]) : d.cb = cb}}

\* C1: when validateLicense is given and the license phase fails in any way
\* (URL build, transport rejection, timeout abort, failure status, decode
\* failure, throwing license callback), no fetch is ever issued for the main
\* URL and the invocation has rejected.
C1_LicenseFailureBlocksMain ==
    \A i \in DOMAIN pc :
       (params[i].validateLicense /\ CaughtIn(i, "license") # {})
          => /\ "main" \notin Range(fetches[i])
             /\ timers[i].main = "none"
             /\ Settled(i)
             /\ outcome[i].state = "rejected"

\* C1 witness: a license request answered 404 has failed an invocation whose
\* main URL is well formed.
C1_Witness ==
    \E i \in DOMAIN pc :
       /\ params[i].validateLicense /\ params[i].urlOk
       /\ \E e \in CaughtIn(i, "license") :
             ClassOf(e) = "ApiResponseError" /\ e.statusCode = 404
       /\ fetches[i] = <<"license">>
       /\ outcome[i].state = "rejected"

\* C2: when the main-phase timer elapses while the main fetch is pending, the
\* signal of that fetch is aborted, the top-level onError (if supplied) is
\* invoked with a TimeoutError, and callApi rejects with that TimeoutError.
C2_MainTimeoutRejectsWithTimeoutError ==
    \A i \in DOMAIN pc :
       AbortError \in CaughtIn(i, "main")
          => /\ aborted[i].main
             /\ "onError" \in params[i].handlers => ArgsOf(i, "onError") = {TimeoutError}
             /\ outcome[i] = [state |-> "rejected", value |-> TimeoutError]

\* C3: when the license-phase timer elapses while the license fetch is
\* pending, the request is aborted and the error given to
\* validateLicense.onError and the error callApi rejects with are
\* TimeoutErrors.
C3_LicenseTimeoutIsTimeoutError ==
    \A i \in DOMAIN pc :
       (timers[i].license = "fired" /\ AbortError \in CaughtIn(i, "license"))
          => /\ aborted[i].license
             /\ \A e \in ArgsOf(i, "license.onError") : ClassOf(e) = "TimeoutError"
             /\ outcome[i].state = "rejected"
             /\ ClassOf(outcome[i].value) = "TimeoutError"

\* C4: provided timers fire, every invocation eventually settles, whatever
\* the transport does.
C4_EventuallySettles == <>(\A i \in DOMAIN pc : Settled(i))

C6_FailurePayloadJsonElseText ==
    \A i \in DOMAIN pc :
       (Settled(i) /\ response[i] # NoResponse /\ ~ResponseOk(response[i])
          /\ (response[i].body.null \/ stream[i] = "closed"))
          => caught[i][Len(caught[i])].error =
                ApiResponseError(response[i].status,
                   IF response[i].body.raw \in JsonTexts
                   THEN JsonParse(response[i].body.raw)
                   ELSE Text(response[i].body.raw))

\* C7: for every response with status in [200,299): no Response Error is
\* raised, exactly one decode is started on its body, and a value callApi
\* returns for it is the parsed JSON body when the content-type header
\* contains application/json and the text of the body otherwise.
C7_SuccessDecodesByContentType ==
    \A i \in DOMAIN pc :
       (phase[i] = "main" /\ response[i] # NoResponse
          /\ response[i].status >= 200 /\ response[i].status < 299)
          => /\ Cardinality({k \in 1..Len(decodes[i]) : decodes[i][k].phase = "main"}) = 1
             /\ Settled(i) => ClassOf(outcome[i].value) # "ApiResponseError"
             /\ outcome[i].state = "fulfilled" =>
                   IF /\ "content-type" \in DOMAIN response[i].headers
                      /\ \E k \in 1..Len(response[i].headers["content-type"]) :
                            response[i].headers["content-type"][k] = "application/json"
                   THEN /\ response[i].body.raw \in JsonTexts
                        /\ outcome[i].value = JsonParse(response[i].body.raw)
                   ELSE outcome[i].value = Text(response[i].body.raw)

\* C7 witness: a 200 response declared "application/json; charset=utf-8"
\* with body "[ 1 ]" has been returned as the parsed array.
C7_Witness ==
    \E i \in DOMAIN pc :
       /\ outcome[i] = [state |-> "fulfilled", value |-> [type |-> "array", value |-> "[1]"]]
       /\ response[i].status = 200
       /\ response[i].body.raw = "[ 1 ]"
       /\ Len(response[i].headers["content-type"]) = 2

\* C8: when fetch rejects without a response for a reason other than the
\* timeout abort, the error callApi raises and gives to onError is a
\* NetworkError.
C8_TransportFailureIsNetworkError ==
    \A i \in DOMAIN pc :
       (FetchFailed \in CaughtIn(i, "main") \/ FetchFailed \in CaughtIn(i, "license"))
          => /\ outcome[i].state = "rejected"
             /\ ClassOf(outcome[i].value) = "NetworkError"
             /\ \A e \in ArgsOf(i, "onError") \cup ArgsOf(i, "license.onError") :
                   ClassOf(e) = "NetworkError"

\* C9: whenever an onError callback (top-level or license) has been invoked
\* with an error, the invocation rejects with that same error, whatever the
\* callback does.
C9_ReportedErrorIsRaised ==
    \A i \in DOMAIN pc :
       \A e \in ArgsOf(i, "onError") \cup ArgsOf(i, "license.onError") :
          Settled(i) => outcome[i] = [state |-> "rejected", value |-> e]

\* C10: each of the four callbacks is invoked at most once in an invocation.
C10_CallbacksAtMostOnce ==
    \A i \in DOMAIN pc :
       \A cb \in Handlers :
          Cardinality({k \in 1..Len(calls[i]) : calls[i][k].cb = cb}) <= 1

\* C10 witness: the main timer has fired on the pending main fetch and
\* onError has been told, after license.onSuccess had been told.
C10_Witness ==
    \E i \in DOMAIN pc :
       /\ Len(calls[i]) = 2
       /\ calls[i][1].cb = "license.onSuccess"
       /\ calls[i][2].cb = "onError"
       /\ AbortError \in CaughtIn(i, "main")

\* C11: in every reachable state at most one fetch has been issued for the
\* license URL and at most one for the main URL; no failure re-issues one.
C11_AtMostOneFetchPerPhase ==
    \A i \in DOMAIN pc :
       \A ph \in {"license", "main"} :
          Cardinality({k \in 1..Len(fetches[i]) : fetches[i][k] = ph}) <= 1

\* C11 witness: both requests were issued and the main one has failed on the
\* transport, which ended the invocation.
C11_Witness ==
    \E i \in DOMAIN pc :
       /\ fetches[i] = <<"license", "main">>
       /\ FetchFailed \in CaughtIn(i, "main")
       /\ Settled(i)

\* C12: the phases never overlap.  A main fetch is issued, with
\* validateLicense given, only after the license fetch was issued and
\* answered (its timer cleared), its body decoded without any license
\* failure and license.onSuccess (if supplied) has returned; the invocation
\* waits on one phase at a time, and at most one of its timers is pending.
C12_PhasesAreSequential ==
    \A i \in DOMAIN pc :
       /\ ~(timers[i].license = "pending" /\ timers[i].main = "pending")
       /\ phase[i] = "license" => "main" \notin Range(fetches[i])
       /\ (params[i].validateLicense /\ "main" \in Range(fetches[i]))
             => /\ fetches[i][1] = "license"
                /\ phase[i] = "main"
                /\ timers[i].license = "cleared"
                /\ aborted[i].license = FALSE
                /\ CaughtIn(i, "license") = {}
                /\ decodes[i] # <<>> /\ decodes[i][1].phase = "license"
                /\ "license.onSuccess" \in params[i].handlers
                      => /\ calls[i] # <<>>
                         /\ calls[i][1].cb = "license.onSuccess"
                         /\ ~calls[i][1].threw

\* C12 witness: the main fetch is pending after a license phase that ended
\* with license.onSuccess told; only the main timer is pending.
C12_Witness ==
    \E i \in DOMAIN pc :
       /\ params[i].validateLicense
       /\ phase[i] = "main" /\ pc[i] = "fetch"
       /\ timers[i] = [license |-> "cleared", main |-> "pending"]
       /\ Len(calls[i]) = 1 /\ calls[i][1].cb = "license.onSuccess"

\* C13: once the invocation has settled none of its timers is pending.
C13_NoTimerPendingOnceSettled ==
    \A i \in DOMAIN pc :
       Settled(i) => timers[i].license # "pending" /\ timers[i].main # "pending"

\* C18: within a phase, onError is never invoked after the same phase's
\* onSuccess has been invoked.
C18_SuccessAndErrorExclusive ==
    \A i \in DOMAIN pc :
       \A k \in 1..Len(calls[i]), l \in 1..Len(calls[i]) :
          k < l => /\ ~(calls[i][k].cb = "onSuccess" /\ calls[i][l].cb = "onError")
                   /\ ~(/\ calls[i][k].cb = "license.onSuccess"
                        /\ calls[i][l].cb = "license.onError")

\* C19: when the license phase fails, the top-level onSuccess and onError
\* are never invoked, the main catch clause binds nothing, and the error
\* callApi rejects with is the license-phase error, unchanged.
C19_LicenseFailureOnlyTellsLicense ==
    \A i \in DOMAIN pc :
       CaughtIn(i, "license") # {}
          => /\ ArgsOf(i, "onSuccess") = {} /\ ArgsOf(i, "onError") = {}
             /\ CaughtIn(i, "main") = {}
             /\ outcome[i] = [state |-> "rejected",
                              value |-> caught[i][Len(caught[i])].error]

\* C15: in both phases the request carries a body exactly when the configured
\* body is not undefined, and the body sent is then the JSON text of the
\* configured value (falsy values 0, false, "" and null included).
C15_BodySentIffConfigured ==
    \A i \in DOMAIN requests : \A k \in 1..Len(requests[i]) :
        LET request == requests[i][k]
            configured == IF request.phase = "main" THEN params[i].body
                          ELSE params[i].licenseBody
        IN  /\ request.body # Undefined <=> configured # Undefined
            /\ configured # Undefined =>
                   request.body = [type |-> "string", value |-> JsonStringify(configured)]

\* The query string C16 describes: one key=value entry per entry of the map
\* whose value is neither undefined nor null, in map order, key and value
\* passed through encodeURIComponent once, or left as they are under
\* skipURIEncoding.
RECURSIVE EncodedOnce(_, _)
EncodedOnce(queryParams, skipURIEncoding) ==
    IF queryParams = <<>> THEN <<>>
    ELSE LET entry == Head(queryParams)
             rest == EncodedOnce(Tail(queryParams), skipURIEncoding)
             text == IF skipURIEncoding
                     THEN entry.key \o <<"=">> \o entry.value.text
                     ELSE EncodeURIComponent(entry.key) \o <<"=">>
                          \o EncodeURIComponent(entry.value.text)
         IN  IF entry.value.type \in {"undefined", "null"} THEN rest
             ELSE IF rest = <<>> THEN text ELSE text \o <<"&">> \o rest

\* C16: the query string of the URL buildUrl produces has no entry for an
\* undefined or null value and exactly one key=value entry, in map order, for
\* every other key, percent-encoded exactly once when skipURIEncoding is
\* false and verbatim when it is true.
C16_QueryEncodedExactlyOnce ==
    \A i \in DOMAIN requests : \A k \in 1..Len(requests[i]) :
        requests[i][k].phase = "main" =>
            requests[i][k].url.search =
                EncodedOnce(params[i].queryParams, params[i].skipURIEncoding)

\* What C14 compares: the transport calls, the callbacks with their
\* arguments in order, and the settlement (the value, or the kind of error).
Behaviour(i) ==
    [fetches |-> fetches[i], requests |-> requests[i], calls |-> calls[i],
     state |-> outcome[i].state,
     result |-> IF outcome[i].state = "rejected" THEN Undefined ELSE outcome[i].value,
     kind |-> IF outcome[i].state = "rejected" THEN ClassOf(outcome[i].value) ELSE ""]

\* C14: two invocations that differ only in their debug flags, given the same
\* transport, timer and callback behaviour, issue the same transport calls,
\* invoke the same callbacks with the same arguments in the same order, and
\* settle alike (same result, or same kind of error).
C14_DebugFlagsDoNotChangeBehaviour ==
    \A i \in DOMAIN pc, j \in DOMAIN pc :
        params[j] = [params[i] EXCEPT !.debug = params[j].debug] =>
            Behaviour(i) = Behaviour(j)

\* Both runs returned data after a license phase, every flag on in one (six
\* lines logged) and none in the other.
C14_Witness ==
    /\ DOMAIN pc = Pair
    /\ params[1].debug = DebugFlags /\ params[2].debug = {}
    /\ params[1].validateLicense
    /\ outcome[1].state = "fulfilled" /\ outcome[2].state = "fulfilled"
    /\ calls[1] # <<>>
    /\ Len(console[1]) = 6 /\ console[2] = <<>>

\* Invocation i takes a step it could take running alone: one of the six
\* steps, from its own state and that step's inputs only.
AloneStep(i) ==
    LET s == St(i)
    IN  \/ /\ s.pc = "idle"
           /\ \E throws \in BOOLEAN : St(i)' = DoCallApi(s, throws)
        \/ /\ s.pc = "fetch"
           /\ \/ /\ response'[i] \in Responses
                 /\ \E throws1 \in BOOLEAN, throws2 \in BOOLEAN :
                       St(i)' = DoFetchResolves(s, response'[i], throws1, throws2)
              \/ \E throws \in BOOLEAN : St(i)' = DoFetchRejects(s, throws)
        \/ \E ph \in {"license", "main"}, throws \in BOOLEAN :
              /\ s.timers[ph] = "pending"
              /\ St(i)' = DoTimerFires(s, ph, throws)
        \/ /\ s.pc \in {"json", "text"} /\ ~s.response.body.null
           /\ \/ \E throws1 \in BOOLEAN, throws2 \in BOOLEAN :
                    St(i)' = DoBodyCompletes(s, throws1, throws2)
              \/ \E throws \in BOOLEAN : St(i)' = DoBodyFails(s, throws)

\* C17: two invocations running concurrently do not interfere: in every step
\* of the interleaved run each invocation either keeps its whole state
\* (transport calls, callbacks, timers, outcome) or takes a step it could take
\* running alone, so each one's run is a run of that invocation alone.
C17_ConcurrentInvocationsIndependent ==
    [][\A i \in DOMAIN pc : St(i)' = St(i) \/ AloneStep(i)]_vars

\* Invocation 2 has timed out in its main phase while invocation 1, started
\* before that, still awaits its fetch with its own timer pending.
C17_Witness ==
    /\ DOMAIN pc = Pair
    /\ pc[1] = "fetch" /\ timers[1][phase[1]] = "pending" /\ ~aborted[1][phase[1]]
    /\ phase[2] = "main" /\ aborted[2].main
    /\ outcome[2].state = "rejected" /\ outcome[1].state = "pending"

====
